---- MODULE Spec2Model ----
(***************************************************************************)
(* Model of packages/multi-test/src/staking.rs: the StakeKeeper and        *)
(* DistributionKeeper modules of cw-multi-test (validator registry,        *)
(* share ledger, lazy reward accrual, slashing, unbonding queue, reward    *)
(* withdrawal).                                                            *)
(*                                                                         *)
(* Storage items are the variables; every entry point (execute / sudo /    *)
(* add_validator / setup) is one action that performs all of the writes    *)
(* the Rust code performs, in order.  The keeper has no rollback of its    *)
(* own: a call that fails after a write leaves that write in its storage.  *)
(* A Rust panic (Decimal subtraction underflow, Timestamp underflow,       *)
(* division by zero) aborts the call like an error.                        *)
(*                                                                         *)
(* cosmwasm_std::Decimal is a fixed-point number kept as an integer count  *)
(* of "atomics".  The library has 18 fractional digits; TLC integers are   *)
(* 32 bit, so the model keeps DECIMAL_PLACES digits and every Decimal      *)
(* operation truncates exactly where the library does.  Amounts, rates and *)
(* times are chosen so that every value that is exact with 18 digits is    *)
(* exact in the model as well.                                             *)
(***************************************************************************)
EXTENDS Integers, Sequences, FiniteSets, TLC

VARIABLES
    staking_info,      \* STAKING_INFO: Item<StakingInfo>, <<>> or <<info>>
    stakes,            \* STAKES: Map<(delegator, validator), Shares>
    validator_map,     \* VALIDATOR_MAP: Map<validator, Validator>
    validators,        \* VALIDATORS: Item<Vec<Validator>>
    validator_info,    \* VALIDATOR_INFO: Map<validator, ValidatorInfo>
    unbonding_queue,   \* UNBONDING_QUEUE: Item<VecDeque<(Addr, Timestamp, u128)>>
    block_time,        \* BlockInfo.time of the next call, in seconds
    last,              \* the last call: its kind, its result, the router messages it sent
    owed,              \* history: successful Undelegate calls not yet paid by a transfer
    slashes,           \* history: the number of successful Slash calls
    withdrawals,       \* history: the number of successful WithdrawDelegatorReward calls
    delegated,         \* history, <<>> or <<record>>: per (delegator, validator),
                       \* the tokens delegated minus those taken away by
                       \* successful calls, kept until a Slash succeeds
    reward_ledger      \* history, <<>> or <<ledger>>: per validator, the
                       \* interest added to calculated_rewards and the
                       \* tokens minted by WithdrawDelegatorReward

vars == <<staking_info, stakes, validator_map, validators, validator_info,
          unbonding_queue, block_time, last, owed, slashes, withdrawals,
          delegated, reward_ledger>>

\* A Map is a function whose domain is the set of keys present; an Item that
\* may be absent is a sequence of length 0 or 1.
Has(map, key) == key \in DOMAIN map
Put(map, key, value) ==
    [k \in DOMAIN map \cup {key} |-> IF k = key THEN value ELSE map[k]]
Remove(map, key) == [k \in DOMAIN map \ {key} |-> map[k]]
EmptyMap == <<>>

----------------------------------------------------------------------------
(* Bounds of the model *)

\* the block time never exceeds MaxTicks * TICK seconds
MaxTicks == 2
\* Delegate is not tried when the validators would hold, or the history would
\* count, more than MaxStake tokens
MaxStake == 300
\* the history owed records the first MaxOwed unpaid undelegations
MaxOwed == 1
\* Slash is not tried after MaxSlashes successful Slash calls
MaxSlashes == 2
\* WithdrawDelegatorReward is not tried after MaxWithdrawals successful ones
MaxWithdrawals == 2

----------------------------------------------------------------------------
(* cosmwasm_std::Decimal *)

DECIMAL_PLACES == 3

RECURSIVE Pow10(_)
Pow10(n) == IF n = 0 THEN 1 ELSE 10 * Pow10(n - 1)

\* Decimal::DECIMAL_FRACTIONAL: atomics per unit
DECIMAL_FRACTIONAL == Pow10(DECIMAL_PLACES)

\* Decimal::one()
DecOne == DECIMAL_FRACTIONAL

\* Decimal::percent(x)
Percent(x) == (x * DECIMAL_FRACTIONAL) \div 100

\* Decimal::from_ratio(n, 1u128)
FromRatio(n) == n * DECIMAL_FRACTIONAL

\* Decimal * Decimal: floor(a * b / DECIMAL_FRACTIONAL), split so that no
\* intermediate product exceeds 32 bits
DecMul(a, b) ==
    (a \div DECIMAL_FRACTIONAL) * b + ((a % DECIMAL_FRACTIONAL) * b) \div DECIMAL_FRACTIONAL

\* Decimal / Decimal: floor(a * DECIMAL_FRACTIONAL / b), b # 0 (b = 0 panics)
DecDiv(a, b) ==
    (a \div b) * DECIMAL_FRACTIONAL + ((a % b) * DECIMAL_FRACTIONAL) \div b

\* Uint128 * Decimal (and Decimal * Uint128): floor(u * d / DECIMAL_FRACTIONAL)
UintMulDec(u, d) == DecMul(d, u)

RECURSIVE GCD(_, _)
GCD(a, b) == IF b = 0 THEN a ELSE GCD(b, a % b)

----------------------------------------------------------------------------
(* Inputs *)

Validators == {"v1", "v2"}
Delegators == {"d1", "d2"}

HALF_YEAR == 15768000
\* block times advance in steps of TICK seconds
TICK == HALF_YEAR
SECONDS_PER_YEAR == 60 * 60 * 24 * 365

Times == {k * TICK : k \in 0..MaxTicks}

coin(amount, denom) == [denom |-> denom, amount |-> amount]
\* amounts of the bonded denomination
Tokens(amounts) == {coin(a, "TOKEN") : a \in amounts}
\* the coins every validation rejects
BadCoins == {coin(0, "TOKEN"), coin(100, "OTHER")}

\* the default of get_staking_info
DefaultStakingInfo == [bonded_denom |-> "TOKEN", unbonding_time |-> 60, apr |-> Percent(10)]
\* a configuration whose unbonding time is one step of the block time
TickStakingInfo == [bonded_denom |-> "TOKEN", unbonding_time |-> TICK, apr |-> Percent(10)]

Validator(address, commission) == [address |-> address, commission |-> commission]

module_addr == "staking_module"

----------------------------------------------------------------------------
(* Results of the queries: an error or a panic, Ok(None), Ok(Some(amount)) *)

Failure == [ok |-> FALSE, some |-> FALSE, amount |-> 0]
OkNone == [ok |-> TRUE, some |-> FALSE, amount |-> 0]
OkSome(amount) == [ok |-> TRUE, some |-> TRUE, amount |-> amount]

----------------------------------------------------------------------------
(* struct Shares, struct ValidatorInfo *)

\* ValidatorInfo::new
ValidatorInfo_new(time) ==
    [stakers |-> {}, stake |-> 0, last_rewards_calculation |-> time,
     total_shares |-> 0, calculated_rewards |-> 0]

\* ValidatorInfo::shares_for: Decimal::one() for an empty validator
shares_for(info, stake) ==
    IF info.stake = 0
    THEN DecOne
    ELSE DecDiv(DecMul(FromRatio(stake), info.total_shares), FromRatio(info.stake))

\* Shares::stake without the division by total_shares
Shares_stake_unscaled(shares, info) == UintMulDec(info.stake, shares)

\* Shares::stake: self.0 / validator.total_shares * validator.stake
\* (panics when total_shares is zero: the callers test that first)
Shares_stake(shares, info) ==
    UintMulDec(info.stake, DecDiv(shares, info.total_shares))

\* Shares::rewards: self.0 * rewards / validator.total_shares
\* (panics when total_shares is zero: the callers test that first)
Shares_rewards(shares, info, rewards) ==
    DecDiv(DecMul(shares, rewards), info.total_shares)

----------------------------------------------------------------------------
(* StakeKeeper: parameters and rewards *)

\* StakeKeeper::get_staking_info
get_staking_info(sinfo) == IF sinfo = <<>> THEN DefaultStakingInfo ELSE sinfo[1]

\* from_ratio(stake,1) * interest_rate * from_ratio(time_diff,1) / from_ratio(year,1):
\* the product with an integer-valued Decimal is exact, so the chain is
\* floor(stake_rate * time_diff / year); the fraction is reduced first to
\* keep the product within 32 bits
MulRatio(x, n, d) == (x * (n \div GCD(n, d))) \div (d \div GCD(n, d))

\* calculate_rewards without the commission
calculate_rewards_gross(current_time, since, interest_rate, validator_commission, stake) ==
    MulRatio(DecMul(FromRatio(stake), interest_rate),
             current_time - since, SECONDS_PER_YEAR)

\* StakeKeeper::calculate_rewards (Timestamp::minus_seconds panics when
\* current_time < since: the callers test that first)
calculate_rewards(current_time, since, interest_rate, validator_commission, stake) ==
    LET time_diff == current_time - since
        reward == MulRatio(DecMul(FromRatio(stake), interest_rate),
                           time_diff, SECONDS_PER_YEAR)
        commission == DecMul(reward, validator_commission)
    IN  reward - commission

\* update_rewards adding the new interest also when it is below one token
update_rewards_always(time, sinfo, info, validator) ==
    IF info.last_rewards_calculation >= time
    THEN info
    ELSE LET new_rewards == calculate_rewards(time, info.last_rewards_calculation,
                                sinfo.apr, validator.commission, info.stake)
         IN  [info EXCEPT !.last_rewards_calculation = time,
                          !.calculated_rewards = @ + new_rewards]

\* update_rewards replacing the accrued rewards by the new interest
update_rewards_resetting(time, sinfo, info, validator) ==
    IF info.last_rewards_calculation >= time
    THEN info
    ELSE LET new_rewards == calculate_rewards(time, info.last_rewards_calculation,
                                sinfo.apr, validator.commission, info.stake)
         IN  IF new_rewards >= DecOne
             THEN [info EXCEPT !.last_rewards_calculation = time,
                               !.calculated_rewards = new_rewards]
             ELSE info

\* StakeKeeper::update_rewards: the updated ValidatorInfo
update_rewards(time, sinfo, info, validator) ==
    IF info.last_rewards_calculation >= time
    THEN info
    ELSE LET new_rewards == calculate_rewards(time, info.last_rewards_calculation,
                                sinfo.apr, validator.commission, info.stake)
         IN  IF new_rewards >= DecOne
             THEN [info EXCEPT !.last_rewards_calculation = time,
                               !.calculated_rewards = @ + new_rewards]
             ELSE info

\* get_rewards_internal taking the missing rewards off the accrued ones
get_rewards_internal_minus(sinfo, time, shares, validator, info) ==
    LET missing_validator_rewards ==
            calculate_rewards(time, info.last_rewards_calculation,
                              get_staking_info(sinfo).apr,
                              validator.commission, info.stake)
    IN  IF \/ time < info.last_rewards_calculation
           \/ info.total_shares = 0
           \/ missing_validator_rewards > info.calculated_rewards
        THEN Failure
        ELSE OkSome(UintMulDec(1, Shares_rewards(shares, info,
                        info.calculated_rewards - missing_validator_rewards)))

\* StakeKeeper::get_rewards_internal. There is no test of block.time against
\* last_rewards_calculation: for an earlier time the u64 subtraction in
\* Timestamp::minus_seconds underflows, which panics in a build with
\* overflow checks and otherwise wraps to a time difference of centuries and
\* a matching interest. Neither outcome is a reward figure; both are Failure
\* here.
get_rewards_internal(sinfo, time, shares, validator, info) ==
    IF time < info.last_rewards_calculation \/ info.total_shares = 0
    THEN Failure      \* calculate_rewards or Shares::rewards panics
    ELSE
    LET si == get_staking_info(sinfo)
        missing_validator_rewards ==
            calculate_rewards(time, info.last_rewards_calculation, si.apr,
                              validator.commission, info.stake)
        validator_rewards == info.calculated_rewards + missing_validator_rewards
        delegator_rewards == Shares_rewards(shares, info, validator_rewards)
    IN  OkSome(UintMulDec(1, delegator_rewards))

\* StakeKeeper::get_rewards on a storage (sinfo, vmap, vinfo, stks)
get_rewards_in(sinfo, vmap, vinfo, stks, time, delegator, validator) ==
    IF ~Has(vmap, validator) THEN Failure
    ELSE IF ~Has(stks, <<delegator, validator>>) THEN OkNone
    ELSE IF ~Has(vinfo, validator) THEN Failure
    ELSE get_rewards_internal(sinfo, time, stks[<<delegator, validator>>],
                              vmap[validator], vinfo[validator])

\* StakeKeeper::get_rewards at the current storage
get_rewards(time, delegator, validator) ==
    get_rewards_in(staking_info, validator_map, validator_info, stakes,
                   time, delegator, validator)

\* StakeKeeper::get_stake on a storage: the amount of the returned Coin
\* (a panic of Shares::stake is a Failure)
get_stake_in(vinfo, stks, account, validator) ==
    IF ~Has(stks, <<account, validator>>) \/ ~Has(vinfo, validator)
    THEN OkSome(0)
    ELSE IF vinfo[validator].total_shares = 0
    THEN Failure
    ELSE OkSome(Shares_stake(stks[<<account, validator>>], vinfo[validator]))

\* StakeKeeper::get_stake at the current storage
get_stake(account, validator) == get_stake_in(validator_info, stakes, account, validator)

\* StakeKeeper::get_validator, get_validators
get_validator(address) ==
    IF Has(validator_map, address) THEN <<validator_map[address]>> ELSE <<>>
get_validators == validators

----------------------------------------------------------------------------
(* StakeKeeper: the ledger *)

\* validate_denom, validate_nonzero, validate_percentage
validate_denom(sinfo, amount) == amount.denom = get_staking_info(sinfo).bonded_denom
validate_nonzero(amount) == amount.amount # 0
\* validate_percentage rejecting a full slash
validate_percentage_strict(percentage) == percentage < DecOne
validate_percentage(percentage) == percentage <= DecOne

Failed(vinfo, stks) == [ok |-> FALSE, validator_info |-> vinfo, stakes |-> stks]

\* StakeKeeper::update_stake: the result and the storage it leaves
update_stake(sinfo, vmap, vinfo, stks, time, delegator, validator, amount, sub) ==
    LET loaded == IF Has(vinfo, validator) THEN vinfo[validator]
                  ELSE ValidatorInfo_new(time)
        stake_info == IF Has(stks, <<delegator, validator>>)
                      THEN stks[<<delegator, validator>>]
                      ELSE 0
    IN  IF amount # 0 /\ ~Has(vmap, validator)
        THEN Failed(vinfo, stks)              \* VALIDATOR_MAP.load fails
        ELSE
        LET info == IF amount # 0
                    THEN update_rewards(time, get_staking_info(sinfo), loaded,
                                        vmap[validator])
                    ELSE loaded
            shares == shares_for(info, amount)
        IN  IF sub /\ (shares > stake_info          \* Decimal -= underflows
                       \/ amount > info.stake       \* checked_sub fails
                       \/ shares > info.total_shares)
            THEN Failed(vinfo, stks)
            ELSE
            LET new_shares == IF sub THEN stake_info - shares ELSE stake_info + shares
                changed == [info EXCEPT
                    !.stake = IF sub THEN @ - amount ELSE @ + amount,
                    !.total_shares = IF sub THEN @ - shares ELSE @ + shares]
                saved == [changed EXCEPT
                    !.stakers = IF new_shares = 0 THEN @ \ {delegator}
                                ELSE @ \cup {delegator}]
            IN  [ok |-> TRUE,
                 validator_info |-> Put(vinfo, validator, saved),
                 stakes |-> IF new_shares = 0
                            THEN Remove(stks, <<delegator, validator>>)
                            ELSE Put(stks, <<delegator, validator>>, new_shares)]

\* StakeKeeper::add_stake
add_stake(sinfo, vmap, vinfo, stks, time, to_address, validator, amount) ==
    IF ~validate_denom(sinfo, amount) \/ ~validate_nonzero(amount)
    THEN Failed(vinfo, stks)
    ELSE update_stake(sinfo, vmap, vinfo, stks, time, to_address, validator,
                      amount.amount, FALSE)

\* remove_stake reporting success when update_stake failed
remove_stake_lenient(sinfo, vmap, vinfo, stks, time, from_address, validator, amount) ==
    IF ~validate_denom(sinfo, amount) \/ ~validate_nonzero(amount)
    THEN Failed(vinfo, stks)
    ELSE [update_stake(sinfo, vmap, vinfo, stks, time, from_address, validator,
                       amount.amount, TRUE) EXCEPT !.ok = TRUE]

\* StakeKeeper::remove_stake
remove_stake(sinfo, vmap, vinfo, stks, time, from_address, validator, amount) ==
    IF ~validate_denom(sinfo, amount) \/ ~validate_nonzero(amount)
    THEN Failed(vinfo, stks)
    ELSE update_stake(sinfo, vmap, vinfo, stks, time, from_address, validator,
                      amount.amount, TRUE)

\* slash scaling the share total along with the stake
slash_scaling_shares(vinfo, stks, validator, percentage) ==
    IF ~Has(vinfo, validator)
    THEN Failed(vinfo, stks)
    ELSE
    LET info == vinfo[validator]
        remaining_percentage == DecOne - percentage
        stake == UintMulDec(info.stake, remaining_percentage)
        saved == IF stake = 0
                 THEN [info EXCEPT !.stake = 0, !.stakers = {}, !.total_shares = 0]
                 ELSE [info EXCEPT !.stake = stake,
                                   !.total_shares = DecMul(@, remaining_percentage)]
    IN  [ok |-> TRUE,
         validator_info |-> Put(vinfo, validator, saved),
         stakes |-> IF stake = 0
                    THEN [k \in {x \in DOMAIN stks :
                                   ~(x[2] = validator /\ x[1] \in info.stakers)}
                            |-> stks[k]]
                    ELSE stks]

\* slash leaving the delegation entries of an emptied validator in place
slash_keeping_entries(vinfo, stks, validator, percentage) ==
    IF ~Has(vinfo, validator)
    THEN Failed(vinfo, stks)
    ELSE
    LET info == vinfo[validator]
        remaining_percentage == DecOne - percentage
        stake == UintMulDec(info.stake, remaining_percentage)
        saved == IF stake = 0
                 THEN [info EXCEPT !.stake = 0, !.stakers = {}, !.total_shares = 0]
                 ELSE [info EXCEPT !.stake = stake]
    IN  [ok |-> TRUE,
         validator_info |-> Put(vinfo, validator, saved),
         stakes |-> stks]

\* slash without stakers.clear()
slash_keeping_stakers(vinfo, stks, validator, percentage) ==
    IF ~Has(vinfo, validator)
    THEN Failed(vinfo, stks)
    ELSE
    LET info == vinfo[validator]
        remaining_percentage == DecOne - percentage
        stake == UintMulDec(info.stake, remaining_percentage)
        saved == IF stake = 0
                 THEN [info EXCEPT !.stake = 0, !.total_shares = 0]
                 ELSE [info EXCEPT !.stake = stake]
    IN  [ok |-> TRUE,
         validator_info |-> Put(vinfo, validator, saved),
         stakes |-> IF stake = 0
                    THEN [k \in {x \in DOMAIN stks :
                                   ~(x[2] = validator /\ x[1] \in info.stakers)}
                            |-> stks[k]]
                    ELSE stks]

\* slash without the reset of total_shares
slash_keeping_shares(vinfo, stks, validator, percentage) ==
    IF ~Has(vinfo, validator)
    THEN Failed(vinfo, stks)
    ELSE
    LET info == vinfo[validator]
        remaining_percentage == DecOne - percentage
        stake == UintMulDec(info.stake, remaining_percentage)
        saved == IF stake = 0
                 THEN [info EXCEPT !.stake = 0, !.stakers = {}]
                 ELSE [info EXCEPT !.stake = stake]
    IN  [ok |-> TRUE,
         validator_info |-> Put(vinfo, validator, saved),
         stakes |-> IF stake = 0
                    THEN [k \in {x \in DOMAIN stks :
                                   ~(x[2] = validator /\ x[1] \in info.stakers)}
                            |-> stks[k]]
                    ELSE stks]

\* StakeKeeper::slash
slash(vinfo, stks, validator, percentage) ==
    IF ~Has(vinfo, validator)
    THEN Failed(vinfo, stks)      \* "validator not found"
    ELSE
    LET info == vinfo[validator]
        remaining_percentage == DecOne - percentage
        stake == UintMulDec(info.stake, remaining_percentage)
        saved == IF stake = 0
                 THEN [info EXCEPT !.stake = 0, !.stakers = {}, !.total_shares = 0]
                 ELSE [info EXCEPT !.stake = stake]
    IN  [ok |-> TRUE,
         validator_info |-> Put(vinfo, validator, saved),
         stakes |-> IF stake = 0
                    THEN [k \in {x \in DOMAIN stks :
                                   ~(x[2] = validator /\ x[1] \in info.stakers)}
                            |-> stks[k]]
                    ELSE stks]

----------------------------------------------------------------------------
(* Router messages and the record of the last call *)

\* BankMsg::Send through router.execute
BankSend(from, to, amount, denom) ==
    [type |-> "Send", from |-> from, to |-> to, amount |-> amount, denom |-> denom]

\* BankSudo::Mint through router.sudo
BankMint(to, amount, denom) ==
    [type |-> "Mint", from |-> "", to |-> to, amount |-> amount, denom |-> denom]

Call(op, ok, msgs) == [op |-> op, ok |-> ok, msgs |-> msgs]

\* an entry of the unbonding queue: (delegator, payout_at, amount)
Entry(delegator, payout_at, amount) ==
    [delegator |-> delegator, payout_at |-> payout_at, amount |-> amount]

\* the loop of StakingSudo::ProcessQueue on the loaded queue: the transfers it requests
RECURSIVE ProcessLoop(_, _, _)
ProcessLoop(queue, time, denom) ==
    IF queue # <<>> /\ Head(queue).payout_at <= time
    THEN <<BankSend(module_addr, Head(queue).delegator, Head(queue).amount, denom)>>
         \o ProcessLoop(Tail(queue), time, denom)
    ELSE <<>>

\* history: the recorded undelegations that the transfers msgs do not pay
RECURSIVE Unpaid(_, _)
Unpaid(record, msgs) ==
    IF record = <<>> THEN <<>>
    ELSE LET paying == {i \in 1..Len(msgs) : msgs[i].to = Head(record).delegator
                                             /\ msgs[i].amount = Head(record).amount}
         IN  IF paying = {}
             THEN <<Head(record)>> \o Unpaid(Tail(record), msgs)
             ELSE LET i == CHOOSE j \in paying : \A k \in paying : j <= k
                  IN  Unpaid(Tail(record),
                             SubSeq(msgs, 1, i - 1) \o SubSeq(msgs, i + 1, Len(msgs)))

----------------------------------------------------------------------------
(* Initial state: empty storage *)

Construct(history, ledger) ==
    /\ staking_info = <<>>
    /\ stakes = EmptyMap
    /\ validator_map = EmptyMap
    /\ validators = <<>>
    /\ validator_info = EmptyMap
    /\ unbonding_queue = <<>>
    /\ block_time = 0
    /\ last = Call("Init", TRUE, <<>>)
    /\ owed = <<>>
    /\ slashes = 0
    /\ withdrawals = 0
    /\ delegated = history
    /\ reward_ledger = ledger

Init == Construct(<<>>, <<>>)

\* the same storage, with the history of delegations kept
InitRecorded == Construct(<<EmptyMap>>, <<>>)

\* the same storage, with the ledger of interest added and rewards minted
InitLedger == Construct(<<>>, <<[credited |-> EmptyMap, minted |-> EmptyMap]>>)

----------------------------------------------------------------------------
(* Entry points *)

\* StakeKeeper::setup
Setup(info) ==
    /\ staking_info' = <<info>>
    /\ last' = Call("Setup", TRUE, <<>>)
    /\ UNCHANGED <<stakes, validator_map, validators, validator_info,
                   unbonding_queue, block_time, owed, slashes, withdrawals, delegated,
                   reward_ledger>>

\* add_validator without the test for an existing record
AddValidator_unchecked(validator) ==
    /\ validator_map' = Put(validator_map, validator.address, validator)
    /\ validators' = Append(validators, validator)
    /\ validator_info' = Put(validator_info, validator.address,
                             ValidatorInfo_new(block_time))
    /\ last' = Call("AddValidator", TRUE, <<>>)
    /\ UNCHANGED <<staking_info, stakes, unbonding_queue, block_time, owed,
                   slashes, withdrawals, delegated,
                   reward_ledger>>

\* add_validator putting the new record at the head of the list
AddValidator_prepending(validator) ==
    LET val_addr == validator.address
    IN  IF Has(validator_map, val_addr)
        THEN /\ last' = Call("AddValidator", FALSE, <<>>)
             /\ UNCHANGED <<staking_info, stakes, validator_map, validators,
                            validator_info, unbonding_queue, block_time, owed, slashes, withdrawals, delegated,
                            reward_ledger>>
        ELSE /\ validator_map' = Put(validator_map, val_addr, validator)
             /\ validators' = <<validator>> \o validators
             /\ validator_info' = Put(validator_info, val_addr,
                                      ValidatorInfo_new(block_time))
             /\ last' = Call("AddValidator", TRUE, <<>>)
             /\ UNCHANGED <<staking_info, stakes, unbonding_queue, block_time, owed, slashes, withdrawals, delegated,
                            reward_ledger>>

\* StakeKeeper::add_validator
AddValidator(validator) ==
    LET val_addr == validator.address
    IN  IF Has(validator_map, val_addr)
        THEN /\ last' = Call("AddValidator", FALSE, <<>>)
             /\ UNCHANGED <<staking_info, stakes, validator_map, validators,
                            validator_info, unbonding_queue, block_time, owed, slashes, withdrawals, delegated,
                            reward_ledger>>
        ELSE /\ validator_map' = Put(validator_map, val_addr, validator)
             /\ validators' = Append(validators, validator)
             /\ validator_info' = Put(validator_info, val_addr,
                                      ValidatorInfo_new(block_time))
             /\ last' = Call("AddValidator", TRUE, <<>>)
             /\ UNCHANGED <<staking_info, stakes, unbonding_queue, block_time, owed, slashes, withdrawals, delegated,
                            reward_ledger>>

\* the stake all validators hold
RECURSIVE SumStake(_, _)
SumStake(vinfo, vs) ==
    IF vs = {} THEN 0
    ELSE LET v == CHOOSE x \in vs : TRUE
         IN  vinfo[v].stake + SumStake(vinfo, vs \ {v})
TotalStake == SumStake(validator_info, DOMAIN validator_info)

\* history: amount more tokens of delegator at validator (fewer when negative)
Credit(history, delegator, validator, amount) ==
    IF history = <<>> THEN <<>>
    ELSE LET record == history[1]
             key == <<delegator, validator>>
             sum == amount + (IF Has(record, key) THEN record[key] ELSE 0)
         IN  <<IF sum = 0 THEN Remove(record, key) ELSE Put(record, key, sum)>>

\* history: the tokens the record counts
RECURSIVE SumRecord(_, _)
SumRecord(record, keys) ==
    IF keys = {} THEN 0
    ELSE LET k == CHOOSE x \in keys : TRUE
         IN  record[k] + SumRecord(record, keys \ {k})
TotalDelegated ==
    IF delegated = <<>> THEN 0 ELSE SumRecord(delegated[1], DOMAIN delegated[1])

\* history: amount more in the map at validator
Raised(map, validator, amount) ==
    Put(map, validator, amount + (IF Has(map, validator) THEN map[validator] ELSE 0))

\* history: what calculated_rewards of each validator has grown by, from the
\* stored states before to the stored states after a call
RECURSIVE Accrued(_, _, _)
Accrued(history, before, after) ==
    LET grown == {v \in DOMAIN before :
                    after[v].calculated_rewards > before[v].calculated_rewards}
    IN  IF history = <<>> \/ grown = {} THEN history
        ELSE LET v == CHOOSE x \in grown : TRUE
                 credited == Raised(history[1].credited, v,
                                    after[v].calculated_rewards
                                    - before[v].calculated_rewards)
             IN  Accrued(<<[history[1] EXCEPT !.credited = credited]>>,
                         Put(before, v, after[v]), after)

\* history: a withdrawal at validator that added interest to calculated_rewards
\* and minted tokens
Minted(history, validator, interest, tokens) ==
    IF history = <<>> THEN <<>>
    ELSE <<[credited |-> Raised(history[1].credited, validator, interest),
            minted |-> Raised(history[1].minted, validator, tokens)]>>

\* StakeKeeper::execute, StakingMsg::Delegate
Delegate(sender, validator, amount) ==
    LET r == add_stake(staking_info, validator_map, validator_info, stakes,
                       block_time, sender, validator, amount)
    IN  /\ TotalStake + amount.amount <= MaxStake
        /\ TotalDelegated + amount.amount <= MaxStake
        /\ validator_info' = r.validator_info
        /\ stakes' = r.stakes
        /\ last' = Call("Delegate", r.ok,
                        IF r.ok
                        THEN <<BankSend(sender, module_addr, amount.amount, amount.denom)>>
                        ELSE <<>>)
        /\ reward_ledger' = Accrued(reward_ledger, validator_info, r.validator_info)
        /\ delegated' = IF r.ok THEN Credit(delegated, sender, validator, amount.amount)
                                ELSE delegated
        /\ UNCHANGED <<staking_info, validator_map, validators, unbonding_queue,
                       block_time, owed, slashes, withdrawals>>

\* StakeKeeper::execute, StakingMsg::Undelegate: the queue with the new entry
\* is dropped at the end of the arm, UNBONDING_QUEUE is not saved
Undelegate(sender, validator, amount, window) ==
    LET r == remove_stake(staking_info, validator_map, validator_info, stakes,
                          block_time, sender, validator, amount)
        queue == Append(unbonding_queue,
                        Entry(sender,
                              block_time + get_staking_info(staking_info).unbonding_time,
                              amount.amount))
    IN  /\ validator_info' = r.validator_info
        /\ stakes' = r.stakes
        /\ unbonding_queue' = unbonding_queue
        /\ last' = Call("Undelegate", r.ok, <<>>)
        /\ owed' = IF r.ok /\ Len(owed) < window
                   THEN Append(owed, queue[Len(queue)])
                   ELSE owed
        /\ reward_ledger' = Accrued(reward_ledger, validator_info, r.validator_info)
        /\ delegated' = IF r.ok THEN Credit(delegated, sender, validator, 0 - amount.amount)
                                ELSE delegated
        /\ UNCHANGED <<staking_info, validator_map, validators, block_time,
                       slashes, withdrawals>>

\* Redelegate adding the stake back to the source validator
Redelegate_to_source(sender, src_validator, dst_validator, amount) ==
    LET r1 == remove_stake(staking_info, validator_map, validator_info, stakes,
                           block_time, sender, src_validator, amount)
        r2 == add_stake(staking_info, validator_map, r1.validator_info, r1.stakes,
                        block_time, sender, src_validator, amount)
        r == IF r1.ok THEN r2 ELSE r1
    IN  /\ validator_info' = r.validator_info
        /\ stakes' = r.stakes
        /\ last' = Call("Redelegate", r.ok, <<>>)
        /\ reward_ledger' = Accrued(reward_ledger, validator_info, r.validator_info)
        /\ delegated' = delegated
        /\ UNCHANGED <<staking_info, validator_map, validators, unbonding_queue,
                       block_time, owed, slashes, withdrawals>>

\* StakeKeeper::execute, StakingMsg::Redelegate
Redelegate(sender, src_validator, dst_validator, amount) ==
    LET r1 == remove_stake(staking_info, validator_map, validator_info, stakes,
                           block_time, sender, src_validator, amount)
        r2 == add_stake(staking_info, validator_map, r1.validator_info, r1.stakes,
                        block_time, sender, dst_validator, amount)
        r == IF r1.ok THEN r2 ELSE r1
    IN  /\ validator_info' = r.validator_info
        /\ stakes' = r.stakes
        /\ last' = Call("Redelegate", r.ok, <<>>)
        /\ reward_ledger' = Accrued(reward_ledger, validator_info, r.validator_info)
        /\ delegated' = IF r1.ok /\ r2.ok
                        THEN Credit(Credit(delegated, sender, src_validator,
                                           0 - amount.amount),
                                    sender, dst_validator, amount.amount)
                        ELSE delegated
        /\ UNCHANGED <<staking_info, validator_map, validators, unbonding_queue,
                       block_time, owed, slashes, withdrawals>>

\* StakeKeeper::sudo, StakingSudo::Slash
Slash(validator, percentage) ==
    LET r == IF validate_percentage(percentage)
             THEN slash(validator_info, stakes, validator, percentage)
             ELSE Failed(validator_info, stakes)
    IN  /\ slashes < MaxSlashes
        /\ validator_info' = r.validator_info
        /\ stakes' = r.stakes
        /\ last' = Call("Slash", r.ok, <<>>)
        /\ slashes' = IF r.ok THEN slashes + 1 ELSE slashes
        /\ reward_ledger' = Accrued(reward_ledger, validator_info, r.validator_info)
        /\ delegated' = IF r.ok THEN <<>> ELSE delegated
        /\ UNCHANGED <<staking_info, validator_map, validators, unbonding_queue,
                       block_time, owed, withdrawals>>

\* StakeKeeper::sudo, StakingSudo::ProcessQueue: the popped queue is dropped
\* at the end of the arm, UNBONDING_QUEUE is not saved
ProcessQueue ==
    LET msgs == ProcessLoop(unbonding_queue, block_time,
                            get_staking_info(staking_info).bonded_denom)
    IN  /\ unbonding_queue' = unbonding_queue
        /\ last' = Call("ProcessQueue", TRUE, msgs)
        /\ owed' = Unpaid(owed, msgs)
        /\ UNCHANGED <<staking_info, stakes, validator_map, validators,
                       validator_info, block_time, slashes, withdrawals, delegated,
                       reward_ledger>>

\* WithdrawDelegatorReward saving the checkpoint without taking the rewards
\* off calculated_rewards
WithdrawDelegatorReward_keeping_pool(sender, validator) ==
    /\ withdrawals < MaxWithdrawals
    /\ IF \/ staking_info = <<>>
          \/ ~Has(validator_info, validator)
          \/ ~Has(validator_map, validator)
          \/ ~Has(stakes, <<sender, validator>>)
       THEN /\ last' = Call("WithdrawDelegatorReward", FALSE, <<>>)
            /\ UNCHANGED <<staking_info, stakes, validator_map, validators,
                           validator_info, unbonding_queue, block_time, owed,
                           slashes, withdrawals, delegated, reward_ledger>>
       ELSE LET info == update_rewards(block_time, staking_info[1],
                                       validator_info[validator], validator_map[validator])
                shares == stakes[<<sender, validator>>]
                rewards == Shares_rewards(shares, info, info.calculated_rewards)
            IN  /\ validator_info' = Put(validator_info, validator, info)
                /\ last' = Call("WithdrawDelegatorReward", TRUE,
                                <<BankMint(sender, UintMulDec(1, rewards),
                                           staking_info[1].bonded_denom)>>)
                /\ withdrawals' = withdrawals + 1
                /\ reward_ledger' = Minted(reward_ledger, validator,
                       info.calculated_rewards - validator_info[validator].calculated_rewards,
                       UintMulDec(1, rewards))
                /\ UNCHANGED <<staking_info, stakes, validator_map, validators,
                               unbonding_queue, block_time, owed, slashes, delegated>>

\* WithdrawDelegatorReward saving the checkpoint before it loads the shares
WithdrawDelegatorReward_saving_checkpoint(sender, validator) ==
    /\ withdrawals < MaxWithdrawals
    /\ IF \/ staking_info = <<>>
          \/ ~Has(validator_info, validator)
          \/ ~Has(validator_map, validator)
       THEN /\ last' = Call("WithdrawDelegatorReward", FALSE, <<>>)
            /\ UNCHANGED <<staking_info, stakes, validator_map, validators,
                           validator_info, unbonding_queue, block_time, owed, slashes, withdrawals, delegated,
                           reward_ledger>>
       ELSE LET info == update_rewards(block_time, staking_info[1],
                                       validator_info[validator], validator_map[validator])
            IN  IF ~Has(stakes, <<sender, validator>>)
                THEN /\ validator_info' = Put(validator_info, validator, info)
                     /\ last' = Call("WithdrawDelegatorReward", FALSE, <<>>)
                     /\ UNCHANGED <<staking_info, stakes, validator_map, validators,
                                    unbonding_queue, block_time, owed, slashes, withdrawals, delegated,
                                    reward_ledger>>
                ELSE
                LET shares == stakes[<<sender, validator>>]
                    rewards == Shares_rewards(shares, info, info.calculated_rewards)
                IN  /\ validator_info' = Put(validator_info, validator,
                           [info EXCEPT !.calculated_rewards = @ - rewards])
                    /\ last' = Call("WithdrawDelegatorReward", TRUE,
                                    <<BankMint(sender, UintMulDec(1, rewards),
                                               staking_info[1].bonded_denom)>>)
                    /\ withdrawals' = withdrawals + 1
                    /\ reward_ledger' = Minted(reward_ledger, validator,
                           info.calculated_rewards - validator_info[validator].calculated_rewards,
                           UintMulDec(1, rewards))
                    /\ UNCHANGED <<staking_info, stakes, validator_map, validators,
                                   unbonding_queue, block_time, owed, slashes, delegated>>

\* DistributionKeeper::execute, DistributionMsg::WithdrawDelegatorReward
WithdrawDelegatorReward(sender, validator) ==
    /\ withdrawals < MaxWithdrawals
    /\ IF \/ staking_info = <<>>                       \* STAKING_INFO.load
          \/ ~Has(validator_info, validator)          \* VALIDATOR_INFO.load
          \/ ~Has(validator_map, validator)           \* VALIDATOR_MAP.load
          \/ ~Has(stakes, <<sender, validator>>)      \* STAKES.load
       THEN /\ last' = Call("WithdrawDelegatorReward", FALSE, <<>>)
            /\ UNCHANGED <<staking_info, stakes, validator_map, validators,
                           validator_info, unbonding_queue, block_time, owed, slashes, withdrawals, delegated,
                           reward_ledger>>
       ELSE LET info == update_rewards(block_time, staking_info[1],
                                       validator_info[validator], validator_map[validator])
                shares == stakes[<<sender, validator>>]
                rewards == Shares_rewards(shares, info, info.calculated_rewards)
            IN  /\ validator_info' = Put(validator_info, validator,
                       [info EXCEPT !.calculated_rewards = @ - rewards])
                /\ last' = Call("WithdrawDelegatorReward", TRUE,
                                <<BankMint(sender, UintMulDec(1, rewards),
                                           staking_info[1].bonded_denom)>>)
                /\ withdrawals' = withdrawals + 1
                /\ reward_ledger' = Minted(reward_ledger, validator,
                       info.calculated_rewards - validator_info[validator].calculated_rewards,
                       UintMulDec(1, rewards))
                /\ UNCHANGED <<staking_info, stakes, validator_map, validators,
                               unbonding_queue, block_time, owed, slashes, delegated>>

\* the caller moves the block time forward between calls
AdvanceTime ==
    /\ block_time + TICK <= MaxTicks * TICK
    /\ block_time' = block_time + TICK
    /\ last' = Call("AdvanceTime", TRUE, <<>>)
    /\ UNCHANGED <<staking_info, stakes, validator_map, validators, validator_info,
                   unbonding_queue, owed, slashes, withdrawals, delegated,
                   reward_ledger>>

----------------------------------------------------------------------------
(* The calls the harness makes, over sets of inputs *)

DoSetup(infos) == \E info \in infos : Setup(info)
DoAddValidator(records) == \E validator \in records : AddValidator(validator)
DoDelegate(ds, vs, coins) == \E d \in ds, v \in vs, a \in coins : Delegate(d, v, a)
DoUndelegate(ds, vs, coins, window) ==
    \E d \in ds, v \in vs, a \in coins : Undelegate(d, v, a, window)
DoRedelegate(ds, vs, coins) ==
    \E d \in ds, v \in vs, w \in vs, a \in coins : Redelegate(d, v, w, a)
DoSlash(vs, percentages) == \E v \in vs, p \in percentages : Slash(v, p)
DoWithdraw(ds, vs) == \E d \in ds, v \in vs : WithdrawDelegatorReward(d, v)

(* The whole instruction surface at one block time: two validators, one amount *)
Next ==
    \/ DoSetup({DefaultStakingInfo})
    \/ DoAddValidator({Validator("v1", Percent(10)), Validator("v1", Percent(50)),
                       Validator("v2", Percent(10))})
    \/ DoDelegate(Delegators, Validators, Tokens({100}) \cup BadCoins)
    \/ DoUndelegate(Delegators, Validators, Tokens({100}) \cup BadCoins, 0)
    \/ DoRedelegate(Delegators, Validators, Tokens({100}) \cup BadCoins)
    \/ DoSlash(Validators, {Percent(100), Percent(150)})
    \/ ProcessQueue
    \/ DoWithdraw(Delegators, Validators)

Spec == Init /\ [][Next]_vars

(* Unbonding: one validator, undelegations recorded in owed *)
NextQueue ==
    \/ DoSetup({DefaultStakingInfo, TickStakingInfo})
    \/ DoAddValidator({Validator("v1", Percent(10))})
    \/ DoDelegate(Delegators, {"v1"}, Tokens({100, 200}))
    \/ DoUndelegate(Delegators, {"v1"}, Tokens({100, 200}) \cup BadCoins, MaxOwed)
    \/ ProcessQueue
    \/ AdvanceTime

SpecQueue == Init /\ [][NextQueue]_vars

(* Rewards: one validator, two delegators, time passing, withdrawals *)
NextRewards ==
    \/ DoSetup({DefaultStakingInfo})
    \/ DoAddValidator({Validator("v1", Percent(10)), Validator("v1", Percent(50))})
    \/ DoDelegate(Delegators, {"v1"}, Tokens({100, 200}))
    \/ DoUndelegate(Delegators, {"v1"}, Tokens({100}), 0)
    \/ DoWithdraw(Delegators, {"v1"})
    \/ AdvanceTime

SpecRewards == Init /\ [][NextRewards]_vars

(* Rewards with the ledger of interest added and rewards minted *)
NextPayout ==
    \/ DoSetup({DefaultStakingInfo})
    \/ DoAddValidator({Validator("v1", Percent(10))})
    \/ DoDelegate(Delegators, {"v1"}, Tokens({100}))
    \/ DoUndelegate({"d1"}, {"v1"}, Tokens({100}), 0)
    \/ DoWithdraw(Delegators, {"v1"})
    \/ AdvanceTime

SpecPayout == InitLedger /\ [][NextPayout]_vars

(* The share ledger without slashing: two validators, two amounts *)
NextLedger ==
    \/ DoAddValidator({Validator("v1", Percent(10)), Validator("v2", Percent(10))})
    \/ DoDelegate(Delegators, Validators, Tokens({50, 100}))
    \/ DoUndelegate(Delegators, Validators, Tokens({50, 100}), 0)
    \/ DoRedelegate(Delegators, Validators, Tokens({50, 100}))

SpecLedger == Init /\ [][NextLedger]_vars

(* Registration of validators over time *)

Records ==
    {Validator("v1", Percent(10)), Validator("v1", Percent(50)),
     Validator("v2", Percent(10)), Validator("v3", Percent(10))}

NextRegistry ==
    \/ DoAddValidator(Records)
    \/ AdvanceTime

SpecRegistry == Init /\ [][NextRegistry]_vars

(* Redelegation among three validators *)

ThreeValidators == {"v1", "v2", "v3"}

NextMove ==
    \/ DoAddValidator({Validator(v, Percent(10)) : v \in ThreeValidators})
    \/ DoDelegate(Delegators, ThreeValidators, Tokens({100}))
    \/ DoRedelegate(Delegators, ThreeValidators, Tokens({100}))

SpecMove == Init /\ [][NextMove]_vars

(* The share ledger with the history of delegations: two validators, one amount *)
NextNet ==
    \/ DoAddValidator({Validator("v1", Percent(10)), Validator("v2", Percent(10))})
    \/ DoDelegate(Delegators, Validators, Tokens({100}))
    \/ DoUndelegate(Delegators, Validators, Tokens({100}), 0)
    \/ DoRedelegate(Delegators, Validators, Tokens({100}))

SpecNet == InitRecorded /\ [][NextNet]_vars

(* Slashing on one validator at one block time: partial and full slashes; both
   delegators delegate, the first one undelegates *)
NextSlash ==
    \/ DoAddValidator({Validator("v1", Percent(10))})
    \/ DoDelegate(Delegators, {"v1"}, Tokens({100}))
    \/ DoUndelegate({"d1"}, {"v1"}, Tokens({50, 100}), 0)
    \/ DoSlash({"v1"}, {Percent(0), Percent(50), Percent(100), Percent(150)})

SpecSlash == Init /\ [][NextSlash]_vars

(* Accrual on one validator whose commission leaves half a token of interest
   per half year on a stake of 100: delegations, undelegations and partial
   slashes between checkpoints *)
NextAccrual ==
    \/ DoAddValidator({Validator("v1", Percent(90))})
    \/ DoDelegate(Delegators, {"v1"}, Tokens({100}))
    \/ DoUndelegate(Delegators, {"v1"}, Tokens({100}), 0)
    \/ DoSlash({"v1"}, {Percent(50)})
    \/ AdvanceTime

SpecAccrual == Init /\ [][NextAccrual]_vars

----------------------------------------------------------------------------
(* Unbonding queue *)

\* the unbonding time in force
unbonding_time == get_staking_info(staking_info).unbonding_time

\* C1: a successful Undelegate(validator, amount) by d at block time t leaves the
\* persisted unbonding queue one entry longer, the new last entry being
\* (d, t + unbonding_time, amount).
C1_UndelegateAppends ==
    [][\A d \in Delegators, v \in Validators, a \in Tokens({100, 200}) :
         (Undelegate(d, v, a, MaxOwed) /\ last'.ok)
         => unbonding_queue' =
              Append(unbonding_queue, Entry(d, block_time + unbonding_time, a.amount))
      ]_vars

\* a successful Undelegate has just returned
C1_Undelegated == last.op = "Undelegate" /\ last.ok

\* C2: every successful Undelegate is paid out by the first ProcessQueue whose
\* block time has reached its payout time: once ProcessQueue has run at time t,
\* no undelegation whose payout time is <= t is still unpaid.
C2_ProcessQueuePaysDue ==
    last.op = "ProcessQueue"
    => \A i \in 1..Len(owed) : owed[i].payout_at > block_time

\* the transfers that pay the entries of a queue, in its order
RECURSIVE Payouts(_, _)
Payouts(queue, denom) ==
    IF queue = <<>> THEN <<>>
    ELSE <<BankSend(module_addr, Head(queue).delegator, Head(queue).amount, denom)>>
         \o Payouts(Tail(queue), denom)

Due(e) == e.payout_at <= block_time

\* C3: ProcessQueue at time t pays the enqueued undelegations whose payout time
\* is <= t, in the order they were enqueued, pays none whose payout time is > t,
\* and leaves the persisted queue empty or with a head that is due after t.
C3_ProcessQueueOrder ==
    [][ProcessQueue
       => /\ last'.msgs = Payouts(SelectSeq(owed, Due),
                                  get_staking_info(staking_info).bonded_denom)
          /\ (unbonding_queue' = <<>> \/ Head(unbonding_queue').payout_at > block_time)
      ]_vars

----------------------------------------------------------------------------
(* Rewards *)

\* C4: immediately after a successful WithdrawDelegatorReward by d at v at time
\* t, rewards_for(d, v, t) is 0, whatever the number of delegators staked at v.
C4_WithdrawZeroes ==
    [][\A d \in Delegators, v \in Validators :
         (WithdrawDelegatorReward(d, v) /\ last'.ok)
         => get_rewards(block_time, d, v)' = OkSome(0)
      ]_vars

\* C5: stake added at time t earns only future interest: rewards_for at t of
\* every delegator already holding shares at the validator is the same
\* immediately before and immediately after an add_stake at t.
C5_AddStakeKeepsRewards ==
    [][\A d \in Delegators, v \in Validators, a \in Tokens({100, 200}) :
         (Delegate(d, v, a) /\ last'.ok)
         => \A x \in Delegators :
              Has(stakes, <<x, v>>)
              => get_rewards(block_time, x, v)' = get_rewards(block_time, x, v)
      ]_vars

\* floor(s * apr * e / 31536000 * (1 - c)) in whole tokens, with apr and c given
\* in Decimal atomics and e / 31536000 reduced
NetInterest(s, apr, c, e) ==
    LET g == GCD(e, SECONDS_PER_YEAR)
    IN  (s * apr * (DecOne - c) * (e \div g))
        \div (DecOne * DecOne * (SECONDS_PER_YEAR \div g))

\* d is the only delegator of v and v holds no accrued rewards
SoleFresh(d, v) ==
    /\ Has(validator_info, v)
    /\ Has(validator_map, v)
    /\ Has(stakes, <<d, v>>)
    /\ validator_info[v].stakers = {d}
    /\ validator_info[v].calculated_rewards = 0

\* C6: for a sole delegator with stake s at a validator with commission c and no
\* accrued rewards, rewards_for after e elapsed seconds is
\* floor(s * apr * e / 31536000 * (1 - c)).
C6_SoleDelegatorInterest ==
    \A d \in Delegators, v \in Validators :
      SoleFresh(d, v)
      => \A t \in Times :
           t >= validator_info[v].last_rewards_calculation
           => get_rewards(t, d, v) =
                OkSome(NetInterest(validator_info[v].stake,
                                   get_staking_info(staking_info).apr,
                                   validator_map[v].commission,
                                   t - validator_info[v].last_rewards_calculation))

\* stake 200 at 10% APR and 10% commission shows 9 after half a year
C6_NineAfterHalfYear ==
    /\ SoleFresh("d1", "v1")
    /\ validator_info["v1"].stake = 200
    /\ validator_map["v1"].commission = Percent(10)
    /\ block_time = validator_info["v1"].last_rewards_calculation + HALF_YEAR
    /\ get_rewards(block_time, "d1", "v1") = OkSome(9)

\* C7: with no call in between, rewards_for(d, v, t2) >= rewards_for(d, v, t1)
\* whenever t2 >= t1 >= the validator's last checkpoint time.
C7_RewardsMonotone ==
    \A d \in Delegators, v \in Validators :
      (Has(stakes, <<d, v>>) /\ Has(validator_map, v))
      => \A t1, t2 \in Times :
           (validator_info[v].last_rewards_calculation <= t1 /\ t1 <= t2)
           => /\ get_rewards(t1, d, v).some
              /\ get_rewards(t2, d, v).some
              /\ get_rewards(t2, d, v).amount >= get_rewards(t1, d, v).amount

\* a delegator whose rewards grow between two times after a checkpoint with
\* accrued rewards
C7_RewardsGrow ==
    \E d \in Delegators, t1, t2 \in Times :
      /\ Has(stakes, <<d, "v1">>)
      /\ validator_info["v1"].calculated_rewards > 0
      /\ validator_info["v1"].last_rewards_calculation <= t1
      /\ t1 < t2
      /\ get_rewards(t2, d, "v1").amount > get_rewards(t1, d, "v1").amount

----------------------------------------------------------------------------
(* Registry *)

\* C8: registering a validator whose address already has a record fails and
\* leaves the record, the index list and the validator's state unchanged.
C8_DuplicateRejected ==
    [][\A v \in Validators, c \in {Percent(10), Percent(50)} :
         (AddValidator(Validator(v, c)) /\ Has(validator_map, v))
         => /\ ~last'.ok
            /\ validator_map' = validator_map
            /\ validators' = validators
            /\ validator_info' = validator_info
            /\ stakes' = stakes
      ]_vars

\* a registration has just been refused for a validator that holds stake
C8_DuplicateTried ==
    /\ last.op = "AddValidator"
    /\ ~last.ok
    /\ \E v \in DOMAIN validator_info : validator_info[v].stake > 0

----------------------------------------------------------------------------
(* Share ledger *)

\* C9: when a validator's total stake is 0, shares_for(amount) is exactly
\* amount shares, so that the first delegation leaves total_shares equal to
\* the total stake.
C9_FirstStakerOneToOne ==
    \A v \in DOMAIN validator_info :
      /\ validator_info[v].stake = 0
         => \A a \in {50, 100, 200} : shares_for(validator_info[v], a) = FromRatio(a)
      /\ (slashes = 0 /\ Cardinality(validator_info[v].stakers) = 1)
         => validator_info[v].total_shares = FromRatio(validator_info[v].stake)

\* the delegators holding an entry at v
Holders(v) == {d \in Delegators : Has(stakes, <<d, v>>)}

RECURSIVE SumValue(_, _)
SumValue(ds, v) ==
    IF ds = {} THEN 0
    ELSE LET d == CHOOSE x \in ds : TRUE
         IN  get_stake(d, v).amount + SumValue(ds \ {d}, v)

Abs(x) == IF x < 0 THEN 0 - x ELSE x

\* C10: with no slashing, for every validator the sum over its delegators of
\* stake_value(shares, validator) differs from the validator's total stake by at
\* most the number of delegators holding an entry for it.
C10_ValueSumNearStake ==
    slashes = 0
    => \A v \in DOMAIN validator_info :
         /\ \A d \in Holders(v) : get_stake(d, v).ok
         /\ Abs(validator_info[v].stake - SumValue(Holders(v), v))
              <= Cardinality(Holders(v))

\* two delegators whose truncated values miss the total stake
C10_Truncated ==
    \E v \in DOMAIN validator_info :
      /\ Cardinality(Holders(v)) = 2
      /\ SumValue(Holders(v), v) < validator_info[v].stake

\* the tokens d has delegated to v, net of what successful calls took away
Net(d, v) ==
    IF Has(delegated[1], <<d, v>>) THEN delegated[1][<<d, v>>] ELSE 0

\* C11: with no slashing, the stake reported for (delegator, validator) is the
\* amount delegated minus the amount undelegated or redelegated away, with a
\* truncation error of at most the last token.
C11_StakeIsNetDelegation ==
    (slashes = 0 /\ delegated # <<>>)
    => \A d \in Delegators, v \in Validators :
         /\ get_stake(d, v).ok
         /\ Abs(Net(d, v) - get_stake(d, v).amount) <= 1

----------------------------------------------------------------------------
(* Slashing *)

\* C12: a successful Slash of v by p that leaves total_stake > 0 sets
\* total_stake to floor(total_stake * (1 - p)), leaves every delegation's share
\* count, the staker set and total_shares unchanged, and so reduces every
\* delegator's stake_value by p up to the truncation of one token.
C12_SlashProportional ==
    [][\A v \in Validators, p \in {Percent(50), Percent(100)} :
         (Slash(v, p) /\ last'.ok /\ validator_info'[v].stake > 0)
         => /\ validator_info'[v].stake
                 = (validator_info[v].stake * (DecOne - p)) \div DecOne
            /\ validator_info'[v].total_shares = validator_info[v].total_shares
            /\ validator_info'[v].stakers = validator_info[v].stakers
            /\ stakes' = stakes
            /\ \A d \in Delegators :
                 /\ get_stake(d, v)'.ok
                 /\ Abs(get_stake(d, v)'.amount
                        - (get_stake(d, v).amount * (DecOne - p)) \div DecOne) <= 1
      ]_vars

\* a sole stake of 100 reads as 50 after one slash by 50%
C12_HundredReadsFifty ==
    /\ last.op = "Slash"
    /\ last.ok
    /\ slashes = 1
    /\ \E d \in Delegators, v \in DOMAIN validator_info :
         /\ validator_info[v].stakers = {d}
         /\ validator_info[v].total_shares = DecOne
         /\ get_stake(d, v) = OkSome(50)

\* C13: after a successful Slash of v that leaves total_stake = 0 (a slash by
\* 100% in particular), no delegation entry (d, v) exists, the staker set of v
\* is empty, its total_shares is 0 and every delegator's reported stake at v
\* is 0.
C13_FullSlashClears ==
    [][\A v \in Validators, p \in {Percent(50), Percent(100)} :
         (Slash(v, p) /\ last'.ok /\ validator_info'[v].stake = 0)
         => /\ \A d \in Delegators : ~Has(stakes', <<d, v>>)
            /\ validator_info'[v].stakers = {}
            /\ validator_info'[v].total_shares = 0
            /\ \A d \in Delegators : get_stake(d, v)' = OkSome(0)
      ]_vars

\* a second slash has emptied a validator
C13_SlashedToZero ==
    /\ last.op = "Slash"
    /\ last.ok
    /\ slashes = 2
    /\ \E v \in DOMAIN validator_info :
         validator_info[v].stake = 0 /\ validator_info[v].stakers = {}

----------------------------------------------------------------------------
(* Invariants of the ledger *)

\* C16: for every validator, the staker set is exactly the set of delegators
\* holding a delegation entry for it, and every delegation entry has a
\* strictly positive share count.
C16_StakersAreEntries ==
    /\ \A v \in DOMAIN validator_info :
         validator_info[v].stakers = {d \in Delegators : Has(stakes, <<d, v>>)}
    /\ \A k \in DOMAIN stakes :
         /\ stakes[k] > 0
         /\ k[1] \in Delegators
         /\ Has(validator_info, k[2])

\* after a slash and an undelegation of a part, a validator has two stakers
C16_TwoRemain ==
    /\ last.op = "Undelegate"
    /\ last.ok
    /\ slashes > 0
    /\ \E v \in DOMAIN validator_info :
         Cardinality(validator_info[v].stakers) = 2

\* C17: for every validator, total_stake = 0 if and only if total_shares = 0.
C17_StakeAndSharesTogether ==
    \A v \in DOMAIN validator_info :
      (validator_info[v].stake = 0) <=> (validator_info[v].total_shares = 0)

\* after a partial slash, the last staker has undelegated what was left
C17_EmptiedAfterSlash ==
    /\ last.op = "Undelegate"
    /\ last.ok
    /\ slashes > 0
    /\ \E v \in DOMAIN validator_info :
         validator_info[v].stake = 0 /\ validator_info[v].total_shares = 0

----------------------------------------------------------------------------
(* Errors and defaults *)

\* C14: a Delegate, Undelegate, Redelegate, WithdrawDelegatorReward or Slash
\* that returns an error has changed none of the persisted records: validator
\* states, delegation shares, unbonding queue.
C14_ErrorChangesNothing ==
    [][(/\ last'.op \in {"Delegate", "Undelegate", "Redelegate",
                          "WithdrawDelegatorReward", "Slash"}
        /\ ~last'.ok)
       => /\ validator_info' = validator_info
          /\ stakes' = stakes
          /\ unbonding_queue' = unbonding_queue
          /\ validator_map' = validator_map
          /\ validators' = validators
      ]_vars

\* C15: when setup was never called the parameters are "TOKEN", 60 seconds
\* and 10%, and WithdrawDelegatorReward succeeds whenever it would with these
\* parameters configured: the validator is registered and the sender holds a
\* delegation entry for it.
C15_DefaultsWithoutSetup ==
    /\ [][\A d \in Delegators, v \in Validators :
            (/\ WithdrawDelegatorReward(d, v)
             /\ staking_info = <<>>
             /\ Has(validator_map, v)
             /\ Has(validator_info, v)
             /\ Has(stakes, <<d, v>>))
            => last'.ok
         ]_vars
    /\ [](get_staking_info(<<>>) = DefaultStakingInfo)

----------------------------------------------------------------------------
(* Checkpoints *)

\* C19: a Slash of v at time t that leaves total_stake > 0 computes the
\* interest since the last checkpoint on the stake before the slash:
\* rewards_for(d, v, t) is the same immediately before and after it.
C19_SlashKeepsRewards ==
    [][\A v \in Validators, p \in {Percent(50), Percent(100)} :
         (Slash(v, p) /\ last'.ok /\ validator_info'[v].stake > 0)
         => \A d \in Delegators :
              get_rewards(block_time, d, v)' = get_rewards(block_time, d, v)
      ]_vars

\* accrued_rewards plus the interest on the current stake from the last
\* checkpoint to time t, in Decimal atomics
ProjectedRewards(sinfo, vmap, vinfo, v, t) ==
    vinfo[v].calculated_rewards
    + calculate_rewards(t, vinfo[v].last_rewards_calculation,
                        get_staking_info(sinfo).apr, vmap[v].commission,
                        vinfo[v].stake)

\* C20: a successful add_stake or remove_stake on v at time t computes the
\* interest since the last checkpoint on the stake before the change: the
\* projected total rewards of v at t are the same immediately before and
\* after it, also when the pending interest is below one token.
C20_StakeChangeKeepsProjection ==
    [][\A d \in Delegators, v \in Validators, a \in Tokens({100}) :
         ((Delegate(d, v, a) \/ Undelegate(d, v, a, 0)) /\ last'.ok)
         => ProjectedRewards(staking_info, validator_map, validator_info', v,
                             block_time)
            = ProjectedRewards(staking_info, validator_map, validator_info, v,
                               block_time)
      ]_vars

----------------------------------------------------------------------------
(* Creation of validator state *)

\* C21: add_stake of a valid non-zero amount of the bonded denomination on a
\* validator that has no ValidatorState succeeds and creates the state, with
\* the last checkpoint time equal to the block time and holding the new stake.
C21_AddStakeCreatesState ==
    [][\A d \in Delegators, v \in Validators, a \in Tokens({50, 100}) :
         (Delegate(d, v, a) /\ ~Has(validator_info, v))
         => /\ last'.ok
            /\ Has(validator_info', v)
            /\ validator_info'[v].last_rewards_calculation = block_time
            /\ validator_info'[v].stake = a.amount
      ]_vars

----------------------------------------------------------------------------
(* Slash: accepted and rejected calls *)

\* C22: a Slash with a percentage above 100%, or of a validator that has no
\* state, fails and changes no validator state and no delegation entry; a
\* Slash with a percentage in [0%, 100%] of a validator that has state
\* succeeds.
C22_SlashAccepts ==
    [][\A v \in Validators,
          p \in {Percent(0), Percent(50), Percent(100), Percent(150)} :
         Slash(v, p)
         => IF p > Percent(100) \/ ~Has(validator_info, v)
            THEN /\ ~last'.ok
                 /\ validator_info' = validator_info
                 /\ stakes' = stakes
            ELSE last'.ok
      ]_vars

\* a Slash of a staked validator was rejected after an earlier one was accepted
C22_RejectedAfterSlash ==
    /\ last.op = "Slash"
    /\ ~last.ok
    /\ slashes > 0
    /\ Has(validator_info, "v1")
    /\ validator_info["v1"].stake > 0

----------------------------------------------------------------------------
(* Withdrawal *)

\* C23: a WithdrawDelegatorReward by a sender that has no delegation entry at
\* the validator fails, leaves the validator's stored state as it was
\* (accrued_rewards and last checkpoint time included) and requests no mint.
C23_WithdrawWithoutEntry ==
    [][\A d \in Delegators, v \in Validators :
         (WithdrawDelegatorReward(d, v) /\ ~Has(stakes, <<d, v>>))
         => /\ ~last'.ok
            /\ validator_info' = validator_info
            /\ last'.msgs = <<>>
      ]_vars

\* a withdrawal was refused while a checkpoint of at least one token was due
C23_RefusedWithInterestDue ==
    /\ last.op = "WithdrawDelegatorReward"
    /\ ~last.ok
    /\ staking_info # <<>>
    /\ Has(validator_map, "v1")
    /\ Has(validator_info, "v1")
    /\ validator_info["v1"].stake > 0
    /\ block_time > validator_info["v1"].last_rewards_calculation
    /\ calculate_rewards(block_time, validator_info["v1"].last_rewards_calculation,
                         staking_info[1].apr, validator_map["v1"].commission,
                         validator_info["v1"].stake) >= DecOne


----------------------------------------------------------------------------
(* Removing stake *)

\* the shares delegator holds at validator, zero without an entry
ShareBalance(delegator, validator) ==
    IF Has(stakes, <<delegator, validator>>)
    THEN stakes[<<delegator, validator>>]
    ELSE 0

\* amount costs more shares at validator's share price than delegator holds
Overdrawn(delegator, validator, amount) ==
    /\ Has(validator_info, validator)
    /\ shares_for(validator_info[validator], amount.amount)
       > ShareBalance(delegator, validator)

\* amount is between 1 and the stake value delegator holds at validator
Covered(delegator, validator, amount) ==
    /\ amount.amount >= 1
    /\ get_stake(delegator, validator).ok
    /\ amount.amount <= get_stake(delegator, validator).amount

\* C25: an Undelegate or Redelegate of an amount whose share equivalent at the
\* current share price exceeds the delegator's shares at the (source)
\* validator, a delegator without entry included, fails and leaves the
\* delegation shares, every validator's total_stake, total_shares and staker
\* set, and the unbonding queue as they were; an Undelegate of any amount
\* from 1 up to the delegator's stake value succeeds, and so does a
\* Redelegate of it to a registered validator.
C25_RemoveWithinBalance ==
    [][\A d \in Delegators, v \in Validators, a \in Tokens({50, 100}) :
         /\ (last'.op = "Undelegate" /\ Overdrawn(d, v, a)
             /\ Undelegate(d, v, a, 0))
            => /\ ~last'.ok
               /\ stakes' = stakes
               /\ validator_info' = validator_info
               /\ unbonding_queue' = unbonding_queue
         /\ (last'.op = "Undelegate" /\ Covered(d, v, a)
             /\ Undelegate(d, v, a, 0))
            => last'.ok
         /\ \A w \in Validators :
              /\ (last'.op = "Redelegate" /\ Overdrawn(d, v, a)
                  /\ Redelegate(d, v, w, a))
                 => /\ ~last'.ok
                    /\ stakes' = stakes
                    /\ validator_info' = validator_info
                    /\ unbonding_queue' = unbonding_queue
              /\ (last'.op = "Redelegate" /\ Covered(d, v, a)
                  /\ Has(validator_map, w) /\ Redelegate(d, v, w, a))
                 => last'.ok
      ]_vars

\* every validator is registered and stake is held, and an Undelegate failed:
\* its amount was more than the sender's shares cover
C25_Refused ==
    /\ last.op = "Undelegate"
    /\ ~last.ok
    /\ DOMAIN validator_map = Validators
    /\ \E d \in Delegators :
         /\ Has(stakes, <<d, "v1">>)
         /\ get_stake(d, "v1") = OkSome(50)

----------------------------------------------------------------------------
(* The reward checkpoint *)

\* the net interest on validator's stake from its last checkpoint to time t,
\* in Decimal atomics
InterestDue(validator, t) ==
    calculate_rewards(t, validator_info[validator].last_rewards_calculation,
                      get_staking_info(staking_info).apr,
                      validator_map[validator].commission,
                      validator_info[validator].stake)

\* the checkpoint of validator at time t
Checkpoint(validator, t) ==
    update_rewards(t, get_staking_info(staking_info), validator_info[validator],
                   validator_map[validator])

\* C26: the reward checkpoint at time t of a validator whose last checkpoint
\* time is L changes nothing when t <= L; when t > L and the net interest on
\* the current stake over (L, t] is at least one whole token it adds exactly
\* that interest to accrued_rewards and sets the last checkpoint time to t;
\* when t > L and the interest is below one token it leaves both as they
\* were. Stake, shares and stakers are never touched.
C26_CheckpointCases ==
    /\ [](\A v \in DOMAIN validator_info, t \in Times :
            LET info == validator_info[v]
                L == info.last_rewards_calculation
            IN  /\ t <= L => Checkpoint(v, t) = info
                /\ (t > L /\ InterestDue(v, t) >= DecOne)
                   => Checkpoint(v, t) =
                        [info EXCEPT !.calculated_rewards = @ + InterestDue(v, t),
                                     !.last_rewards_calculation = t]
                /\ (t > L /\ InterestDue(v, t) < DecOne)
                   => Checkpoint(v, t) = info)
    /\ [][\A d \in Delegators, v \in Validators, a \in Tokens({100}) :
            ((Delegate(d, v, a) \/ Undelegate(d, v, a, 0)) /\ last'.ok)
            => /\ validator_info'[v].calculated_rewards
                  = Checkpoint(v, block_time).calculated_rewards
               /\ validator_info'[v].last_rewards_calculation
                  = Checkpoint(v, block_time).last_rewards_calculation
         ]_vars

\* a second Delegate found less than one token of interest due and left the
\* checkpoint where it was
C26_SkippedBelowOneToken ==
    /\ last.op = "Delegate"
    /\ last.ok
    /\ Has(validator_info, "v1")
    /\ validator_info["v1"].stake = 200
    /\ validator_info["v1"].last_rewards_calculation < block_time
    /\ validator_info["v1"].calculated_rewards = 0

----------------------------------------------------------------------------
(* Redelegation *)

\* C27: a successful Redelegate(src, dst, amount) by d lowers src's
\* total_stake by exactly amount and raises dst's by exactly amount (the two
\* cancel when src and dst are the same validator), appends nothing to the
\* unbonding queue, requests no funds transfer, and leaves every other
\* validator's state and every other delegator's share entries as they were.
C27_RedelegateMovesStake ==
    [][\A d \in Delegators, src \in ThreeValidators, dst \in ThreeValidators,
          a \in Tokens({100}) :
         (last'.op = "Redelegate" /\ last'.ok /\ Redelegate(d, src, dst, a))
         => /\ src # dst
               => /\ validator_info'[src].stake
                     = validator_info[src].stake - a.amount
                  /\ validator_info'[dst].stake
                     = validator_info[dst].stake + a.amount
            /\ src = dst
               => validator_info'[src].stake = validator_info[src].stake
            /\ unbonding_queue' = unbonding_queue
            /\ last'.msgs = <<>>
            /\ \A x \in DOMAIN validator_info \ {src, dst} :
                 /\ Has(validator_info', x)
                 /\ validator_info'[x] = validator_info[x]
            /\ DOMAIN validator_info' = DOMAIN validator_info
            /\ \A k \in (DOMAIN stakes) \cup (DOMAIN stakes') :
                 k[1] # d
                 => /\ Has(stakes, k)
                    /\ Has(stakes', k)
                    /\ stakes'[k] = stakes[k]
      ]_vars

\* after a Redelegate three validators hold stake, of two delegators
C27_MovedAmongThree ==
    /\ last.op = "Redelegate"
    /\ last.ok
    /\ DOMAIN validator_info = ThreeValidators
    /\ \A v \in ThreeValidators : validator_info[v].stake > 0
    /\ \A d \in Delegators : \E v \in ThreeValidators : Has(stakes, <<d, v>>)

----------------------------------------------------------------------------
(* Registration *)

\* C28: a successful registration of a new validator address at time t stores
\* the record get(address) returns, creates a validator state with
\* total_stake 0, total_shares 0, no stakers, accrued_rewards 0 and last
\* checkpoint time t, and appends the record at the end of the list; a
\* failed registration and every other call leave the list as it was, so
\* list() is the successfully registered records, each once, in
\* registration order.
C28_RegistrationAppends ==
    /\ [][\A record \in Records :
            (last'.op = "AddValidator" /\ AddValidator(record))
            => IF Has(validator_map, record.address)
               THEN /\ ~last'.ok
                    /\ get_validators' = get_validators
                    /\ get_validator(record.address)'
                       = get_validator(record.address)
                    /\ validator_info' = validator_info
               ELSE /\ last'.ok
                    /\ get_validator(record.address)' = <<record>>
                    /\ validator_info'[record.address] =
                         [stake |-> 0, total_shares |-> 0, stakers |-> {},
                          calculated_rewards |-> 0,
                          last_rewards_calculation |-> block_time]
                    /\ get_validators' = Append(get_validators, record)
         ]_vars
    /\ [][last'.op # "AddValidator" => get_validators' = get_validators]_vars
    /\ [](/\ \A i, j \in 1..Len(get_validators) :
               i # j => get_validators[i].address # get_validators[j].address
          /\ \A i \in 1..Len(get_validators) :
               get_validator(get_validators[i].address) = <<get_validators[i]>>
          /\ Len(get_validators) = Cardinality(DOMAIN validator_map))

\* a registration failed after v2 and then v1 were registered, v1 after time 0
C28_SecondRegistrationRefused ==
    /\ last.op = "AddValidator"
    /\ ~last.ok
    /\ Len(validators) >= 2
    /\ validators[1].address = "v2"
    /\ validators[2].address = "v1"
    /\ validator_info["v1"].last_rewards_calculation > 0

----------------------------------------------------------------------------
(* Rewards read at an earlier time, rewards of a new delegator *)

\* C29: rewards_for(d, v, t) with t at or before the validator's last
\* checkpoint time does not fail: it returns the delegator's part of the
\* accrued rewards, floor(shares * accrued_rewards / total_shares), with no
\* new interest.
C29_RewardsAtEarlierTime ==
    \A d \in Delegators, v \in Validators, t \in Times :
        (/\ Has(validator_map, v)
         /\ Has(validator_info, v)
         /\ Has(stakes, <<d, v>>)
         /\ t <= validator_info[v].last_rewards_calculation)
        => get_rewards(t, d, v) =
             OkSome(UintMulDec(1, DecDiv(DecMul(stakes[<<d, v>>],
                                     validator_info[v].calculated_rewards),
                                  validator_info[v].total_shares)))


\* C30: right after a delegator's first successful delegation to v at time
\* t, with no time elapsed, rewards_for(d, v, t) is 0, whatever
\* accrued_rewards v holds: rewards accrued before the delegator held stake
\* are not the delegator's.
C30_NewDelegatorStartsAtZero ==
    [][\A d \in Delegators, v \in Validators, a \in Tokens({100, 200}) :
         (/\ last'.op = "Delegate"
          /\ ~Has(stakes, <<d, v>>)
          /\ Delegate(d, v, a)
          /\ last'.ok)
         => get_rewards(block_time, d, v)' = OkSome(0)
      ]_vars

----------------------------------------------------------------------------
(* Withdrawals and the other delegators *)

\* C31: for distinct delegators d1 and d2 staked at validator v,
\* rewards_for(d2, v, t) is the same immediately before and immediately after
\* a successful WithdrawDelegatorReward by d1 at time t.
C31_WithdrawLeavesOthers ==
    [][\A d1 \in Delegators, d2 \in Delegators, v \in Validators :
         (/\ last'.op = "WithdrawDelegatorReward"
          /\ d1 # d2
          /\ Has(stakes, <<d2, v>>)
          /\ WithdrawDelegatorReward(d1, v)
          /\ last'.ok)
         => get_rewards(block_time, d2, v)' = get_rewards(block_time, d2, v)
      ]_vars


\* the interest checkpoints have added to validator's calculated_rewards, in
\* Decimal atomics, and the tokens withdrawals at validator have minted
CreditedTo(validator) ==
    IF Has(reward_ledger[1].credited, validator)
    THEN reward_ledger[1].credited[validator]
    ELSE 0
MintedAt(validator) ==
    IF Has(reward_ledger[1].minted, validator)
    THEN reward_ledger[1].minted[validator]
    ELSE 0

\* C32: over any sequence of calls, for every validator the tokens minted by
\* WithdrawDelegatorReward never exceed the net interest that checkpoints
\* have added to its accrued_rewards, and accrued_rewards is never negative.
C32_MintedWithinInterest ==
    reward_ledger # <<>>
    => \A v \in DOMAIN validator_info :
         /\ validator_info[v].calculated_rewards >= 0
         /\ MintedAt(v) * DECIMAL_FRACTIONAL <= CreditedTo(v)

\* two withdrawals have minted tokens, fewer than the interest added
C32_PaidTwice ==
    /\ reward_ledger # <<>>
    /\ withdrawals = 2
    /\ last.op = "WithdrawDelegatorReward"
    /\ last.ok
    /\ last.msgs[1].amount > 0
    /\ MintedAt("v1") > last.msgs[1].amount
    /\ MintedAt("v1") * DECIMAL_FRACTIONAL < CreditedTo("v1")

====
